---------------------------- MODULE Spec2Model ----------------------------
(***************************************************************************)
(* Model of the OCR route handler of gravix-ocr (the POST handler of the   *)
(* /api/ocr route with its helpers createOpenAIClient and                  *)
(* processImageForOCR) and of the OCRApp page that calls it.               *)
(*                                                                         *)
(*   Spec, FairSpec        one request at a time through POST              *)
(*   SpecConc              NumRequests invocations of POST, interleaved    *)
(*   SpecResize            the resize step of processImageForOCR           *)
(*   SpecClient, FairClient  the page: processFile, handleOCR, clearFile   *)
(*                                                                         *)
(* Strings that the code inspects with String.includes are sequences of    *)
(* tokens; includes is a real contiguous-subsequence test.  Strings that   *)
(* are only tested for truthiness are plain TLA+ strings.  JavaScript      *)
(* null/undefined values are the record JNull.                             *)
(***************************************************************************)
EXTENDS Integers, Sequences, FiniteSets, TLC

(* ------------------------------ bounds -------------------------------- *)

\* longest upstream error message, in tokens
MaxMsgLen == 2

\* longest choices array of an upstream completion
MaxChoices == 1

\* largest image side, in pixels, that is tried in full range
MaxSide == 1001

\* requests that POST handles at the same time
NumRequests == 2

\* files that the user hands to the page (select, drop or paste)
MaxUploads == 2

(* --------------------------- JavaScript values ------------------------ *)

JNull == [t |-> "null"]

JStr(s) == [t |-> "str", s |-> s]

JArr(items) == [t |-> "arr", items |-> items]

\* the env var is undefined, the empty string, or a key
Undefined == "<undefined>"

ApiKeys == {Undefined, "", "gsk-key"}

\* JavaScript truthiness of a string-or-undefined value
Truthy(v) == v # Undefined /\ v # ""

\* String.prototype.includes on token sequences
Includes(s, t) ==
    \E i \in 1..(Len(s) + 1) :
        /\ i + Len(t) - 1 <= Len(s)
        /\ SubSeq(s, i, i + Len(t) - 1) = t

\* all sequences over S of length at most n
RECURSIVE SeqsUpTo(_, _)
SeqsUpTo(S, n) ==
    IF n = 0 THEN {<<>>}
    ELSE LET shorter == SeqsUpTo(S, n - 1)
         IN  shorter \cup {Append(s, x) : s \in shorter, x \in S}

(* ------------------------------- base64 ------------------------------- *)

B64Chars ==
    <<"A", "B", "C", "D", "E", "F", "G", "H", "I", "J", "K", "L", "M",
      "N", "O", "P", "Q", "R", "S", "T", "U", "V", "W", "X", "Y", "Z",
      "a", "b", "c", "d", "e", "f", "g", "h", "i", "j", "k", "l", "m",
      "n", "o", "p", "q", "r", "s", "t", "u", "v", "w", "x", "y", "z",
      "0", "1", "2", "3", "4", "5", "6", "7", "8", "9", "+", "/">>

B64Char(n) == B64Chars[n + 1]

\* Buffer.prototype.toString("base64"): three bytes become four characters
RECURSIVE Base64(_)
Base64(bytes) ==
    IF Len(bytes) = 0 THEN <<>>
    ELSE IF Len(bytes) = 1
         THEN <<B64Char(bytes[1] \div 4), B64Char((bytes[1] % 4) * 16), "=", "=">>
    ELSE IF Len(bytes) = 2
         THEN <<B64Char(bytes[1] \div 4),
                B64Char((bytes[1] % 4) * 16 + bytes[2] \div 16),
                B64Char((bytes[2] % 16) * 4), "=">>
    ELSE <<B64Char(bytes[1] \div 4),
           B64Char((bytes[1] % 4) * 16 + bytes[2] \div 16),
           B64Char((bytes[2] % 16) * 4 + bytes[3] \div 64),
           B64Char(bytes[3] % 64)>> \o Base64(SubSeq(bytes, 4, Len(bytes)))

(* ------------------------------ literals ------------------------------ *)

TokEnvVar == "GRAVIXLAYER_API_KEY"

TokInvalidKey == "Invalid API key"

TokRateLimit == "Rate limit exceeded"

MsgKeyRequired == <<TokEnvVar, " environment variable is required">>

MsgKeyNotSet == <<TokEnvVar, " environment variable is not set">>

MsgNoImage == <<"No image file provided">>

MsgBadStructure == <<"Unexpected response structure from Gravix Layer API">>

MsgUnexpected == <<"An unexpected error occurred during the API call.">>

MsgUnknown == <<"An unknown internal server error occurred.">>

FallbackText == <<"No text could be extracted from the image">>

\* number-to-string conversion of the template literal `${status}`
StatusStr(n) ==
    CASE n = 400 -> "400"
      [] n = 401 -> "401"
      [] n = 403 -> "403"
      [] n = 429 -> "429"
      [] n = 500 -> "500"
      [] OTHER   -> "0"

(* ------------------------------- inputs ------------------------------- *)

ImageFormats == {"png", "jpeg", "webp", "garbage"}

\* the size limit of an upload, in bytes (10 MiB)
MaxFileSize == 10 * 1024 * 1024

\* the first byte of a file of each encoding
MagicByte(format) ==
    CASE format = "png"  -> 137
      [] format = "jpeg" -> 255
      [] format = "webp" -> 82
      [] OTHER           -> 0

\* the encoding that a buffer's bytes really have
FormatOf(bytes) ==
    IF bytes = <<>> THEN "garbage"
    ELSE CASE bytes[1] = 137 -> "png"
           [] bytes[1] = 255 -> "jpeg"
           [] bytes[1] = 82  -> "webp"
           [] OTHER          -> "garbage"

\* the picture content that follows the first byte
Payloads == {<<>>, <<77>>, <<77, 97>>}

FileSizes == {MaxFileSize, MaxFileSize + 1}

\* an uploaded file: the bytes the model keeps of it, its real encoding,
\* and File.size
Files ==
    {[t |-> "file", bytes |-> <<MagicByte(f)>> \o p, format |-> f, size |-> n] :
        f \in ImageFormats, p \in Payloads, n \in FileSizes}

\* the value of formData.get("image"): null, a text field, or a File
FormEntries == {JNull, JStr(""), JStr("abc")} \cup Files

\* a request body: not parseable as form data, or a form with an entry
Bodies == {[form |-> FALSE]} \cup [form : {TRUE}, image : FormEntries]

\* where sharp can fail inside processImageForOCR
FailStages == {"none", "metadata", "filter", "encode"}

\* words an upstream error message is made of
UpstreamWords == {"Unauthorized", TokInvalidKey, TokRateLimit, TokEnvVar}

UpstreamMessages == SeqsUpTo(UpstreamWords, MaxMsgLen)

\* APIError.status: 0 stands for undefined (connection errors)
UpstreamStatuses == {0, 400, 401, 403, 429, 500}

\* what openai.chat.completions.create can throw
ApiError(status, message) ==
    [t |-> "APIError", status |-> status, message |-> message]

PlainError(message) == [t |-> "Error", message |-> message]

NonError == [t |-> "nonError"]

UpstreamErrors ==
    {ApiError(s, m) : s \in UpstreamStatuses, m \in UpstreamMessages}
        \cup {PlainError(m) : m \in UpstreamMessages}
        \cup {NonError}

\* text the model can return
Contents == {JNull, JStr(<<>>), JStr(<<"Hello">>), JStr(<<"Hello", " World">>)}

Messages == {JNull} \cup [content : Contents]

Choices == [message : Messages]

ChoiceLists == {JArr(l) : l \in UNION {[1..n -> Choices] : n \in 0..MaxChoices}}

\* what openai.chat.completions.create can resolve to
Completions == {JNull} \cup [choices : {JNull} \cup ChoiceLists]

(* -------------------------------- state ------------------------------- *)

VARIABLES
    apiKey,          \* process.env.GRAVIXLAYER_API_KEY
    pc,              \* position of the handler
    body,            \* the request body
    image,           \* formData.get("image")
    originalBuffer,  \* Buffer.from(await image.arrayBuffer())
    processedBuffer, \* result of processImageForOCR
    dataUrl,         \* the data URL sent upstream
    completion,      \* result of the upstream call
    error,           \* the value thrown to the outer catch
    response,        \* the response returned by POST
    upstream,        \* outcome of the upstream call of this request
    upstreamCalls,   \* calls of chat.completions.create in this request
    preprocessRuns,  \* calls of processImageForOCR in this request
    preprocessFail,  \* stage at which preprocessing failed in this request
    rz,              \* one run of the resize step of processImageForOCR
    reqs,            \* the requests that POST handles concurrently
    cli              \* the state of the OCRApp component and its pending calls

vars == <<apiKey, pc, body, image, originalBuffer, processedBuffer, dataUrl,
          completion, error, response, upstream, upstreamCalls,
          preprocessRuns, preprocessFail, rz, reqs, cli>>

None == [t |-> "none"]

(* ------------------------------ helpers ------------------------------- *)

\* NextResponse.json(body, { status })
Json(b, status) == [status |-> status, body |-> b]

\* createOpenAIClient: throws when the key is falsy
createOpenAIClient(key) ==
    IF ~Truthy(key)
    THEN [ok |-> FALSE, error |-> PlainError(MsgKeyRequired)]
    ELSE [ok |-> TRUE, apiKey |-> key, baseURL |-> "https://api.gravixlayer.com/v1"]

\* processImageForOCR returning an empty buffer when a step fails
processImageForOCR_EmptyOnFailure(imageBuffer, fail) ==
    IF fail = "none"
    THEN [bytes |-> <<137, 80>> \o Tail(imageBuffer.bytes), format |-> "png"]
    ELSE [bytes |-> <<>>, format |-> "none"]

\* processImageForOCR: the PNG re-encoding, or the input on any failure
processImageForOCR(imageBuffer, fail) ==
    IF fail = "none"
    THEN [bytes |-> <<137, 80>> \o Tail(imageBuffer.bytes), format |-> "png"]
    ELSE imageBuffer

\* lines 109-111: the data URL of a buffer
DataUrl(buffer) ==
    [mimeType |-> "image/png",
     url |-> <<"data:", "image/png", ";base64,">> \o Base64(buffer.bytes)]

\* sharp fails at the metadata read on bytes that are not an image
PossibleFails(imageBuffer) ==
    IF imageBuffer.format = "garbage" THEN {"metadata"} ELSE FailStages

\* the inner catch (lines 147-166): the error re-thrown to the outer catch
RethrowApiCallError(e) ==
    CASE e.t = "APIError" ->
            PlainError(<<"Gravix Layer API error (",
                         IF e.status = 0 THEN "unknown" ELSE StatusStr(e.status),
                         "): ">> \o e.message)
      [] e.t = "Error" ->
            PlainError(<<"Network or SDK error during API call: ">> \o e.message)
      [] OTHER -> PlainError(MsgUnexpected)

\* an outer catch that adds an empty text to the generic error body
ErrorResponse_WithText(e) ==
    IF e.t \in {"Error", "APIError"}
    THEN IF Includes(e.message, <<TokEnvVar>>)
              THEN Json([error |-> MsgKeyNotSet], 500)
         ELSE IF Includes(e.message, <<TokInvalidKey>>)
              THEN Json([error |-> <<TokInvalidKey>>], 401)
         ELSE IF Includes(e.message, <<TokRateLimit>>)
              THEN Json([error |-> <<TokRateLimit>>], 429)
         ELSE Json([error |-> <<"Internal server error: ">> \o e.message,
                    text |-> <<>>], 500)
    ELSE Json([error |-> MsgUnknown], 500)

\* the outer catch (lines 179-201)
ErrorResponse(e) ==
    IF e.t \in {"Error", "APIError"}
    THEN IF Includes(e.message, <<TokEnvVar>>)
              THEN Json([error |-> MsgKeyNotSet], 500)
         ELSE IF Includes(e.message, <<TokInvalidKey>>)
              THEN Json([error |-> <<TokInvalidKey>>], 401)
         ELSE IF Includes(e.message, <<TokRateLimit>>)
              THEN Json([error |-> <<TokRateLimit>>], 429)
         ELSE Json([error |-> <<"Internal server error: ">> \o e.message], 500)
    ELSE Json([error |-> MsgUnknown], 500)

\* the structure check without the test for an empty choices array
MalformedCompletion_NoLengthCheck(c) ==
    \/ c = JNull
    \/ c.choices = JNull
    \/ (Len(c.choices.items) > 0 /\ c.choices.items[1].message = JNull)

\* the structure check of line 169
MalformedCompletion(c) ==
    \/ c = JNull
    \/ c.choices = JNull
    \/ Len(c.choices.items) = 0
    \/ c.choices.items[1].message = JNull

\* content ?? fallback: an empty string is kept
ExtractedText_Nullish(c) ==
    LET items   == c.choices.items
        first   == IF Len(items) >= 1 THEN items[1] ELSE JNull
        message == IF first = JNull THEN JNull ELSE first.message
        content == IF message = JNull THEN JNull ELSE message.content
    IN  IF content = JNull THEN FallbackText ELSE content.s

\* line 174: completion.choices[0]?.message?.content || fallback
ExtractedText(c) ==
    LET items   == c.choices.items
        first   == IF Len(items) >= 1 THEN items[1] ELSE JNull
        message == IF first = JNull THEN JNull ELSE first.message
        content == IF message = JNull THEN JNull ELSE message.content
    IN  IF content = JNull \/ content.s = <<>> THEN FallbackText ELSE content.s

(* ------------------------------ actions ------------------------------- *)

\* no handler is running
HandlerIdle ==
    /\ pc = "idle"
    /\ body = None
    /\ image = None
    /\ originalBuffer = None
    /\ processedBuffer = None
    /\ dataUrl = None
    /\ completion = None
    /\ error = None
    /\ response = None
    /\ upstream = None
    /\ upstreamCalls = 0
    /\ preprocessRuns = 0
    /\ preprocessFail = "none"

Init ==
    /\ apiKey \in ApiKeys
    /\ rz = None
    /\ reqs = None
    /\ cli = None
    /\ pc = "idle"
    /\ body = None
    /\ image = None
    /\ originalBuffer = None
    /\ processedBuffer = None
    /\ dataUrl = None
    /\ completion = None
    /\ error = None
    /\ response = None
    /\ upstream = None
    /\ upstreamCalls = 0
    /\ preprocessRuns = 0
    /\ preprocessFail = "none"

\* the response has been sent: the request-scoped values are dropped
Finish ==
    /\ pc = "done"
    /\ pc' = "idle"
    /\ body' = None
    /\ image' = None
    /\ originalBuffer' = None
    /\ processedBuffer' = None
    /\ dataUrl' = None
    /\ completion' = None
    /\ error' = None
    /\ response' = None
    /\ upstream' = None
    /\ upstreamCalls' = 0
    /\ preprocessRuns' = 0
    /\ preprocessFail' = "none"
    /\ UNCHANGED <<rz, reqs, cli, apiKey>>

\* a request arrives (the previous one, if any, has been answered)
Request ==
    /\ pc = "idle"
    /\ body' \in Bodies
    /\ pc' = "start"
    /\ image' = None
    /\ originalBuffer' = None
    /\ processedBuffer' = None
    /\ dataUrl' = None
    /\ completion' = None
    /\ error' = None
    /\ response' = None
    /\ upstream' = None
    /\ upstreamCalls' = 0
    /\ preprocessRuns' = 0
    /\ preprocessFail' = "none"
    /\ UNCHANGED <<rz, reqs, cli, apiKey>>

\* the handler without the credential check at its start
CheckKey_NoCheck ==
    /\ pc = "start"
    /\ pc' = "formData"
    /\ UNCHANGED <<rz, reqs, cli, apiKey, body, image, originalBuffer, processedBuffer,
                   dataUrl, completion, error, response, upstream,
                   upstreamCalls, preprocessRuns, preprocessFail>>

\* lines 80-89: the credential check
CheckKey ==
    /\ pc = "start"
    /\ IF ~Truthy(apiKey)
       THEN /\ response' = Json([error |-> MsgKeyNotSet], 500)
            /\ pc' = "done"
       ELSE /\ pc' = "formData"
            /\ UNCHANGED response
    /\ UNCHANGED <<rz, reqs, cli, apiKey, body, image, originalBuffer, processedBuffer,
                   dataUrl, completion, error, upstream, upstreamCalls,
                   preprocessRuns, preprocessFail>>

\* lines 91-97: parse the form, reject a missing image
ReadFormData ==
    /\ pc = "formData"
    /\ IF ~body.form
       THEN /\ error' = PlainError(<<"Failed to parse body as FormData.">>)
            /\ pc' = "catch"
            /\ UNCHANGED <<image, response>>
       ELSE /\ image' = body.image
            /\ IF body.image = JNull \/ body.image = JStr("")
               THEN /\ response' = Json([error |-> MsgNoImage], 400)
                    /\ pc' = "done"
               ELSE /\ pc' = "arrayBuffer"
                    /\ UNCHANGED response
            /\ UNCHANGED error
    /\ UNCHANGED <<rz, reqs, cli, apiKey, body, originalBuffer, processedBuffer, dataUrl,
                   completion, upstream, upstreamCalls, preprocessRuns,
                   preprocessFail>>

\* lines 102-103: read the bytes; a text field has no arrayBuffer method
ReadBuffer ==
    /\ pc = "arrayBuffer"
    /\ IF image.t = "file"
       THEN /\ originalBuffer' = [bytes |-> image.bytes, format |-> image.format]
            /\ pc' = "preprocess"
            /\ UNCHANGED error
       ELSE /\ error' = PlainError(<<"image.arrayBuffer is not a function">>)
            /\ pc' = "catch"
            /\ UNCHANGED originalBuffer
    /\ UNCHANGED <<rz, reqs, cli, apiKey, body, image, processedBuffer, dataUrl, completion,
                   response, upstream, upstreamCalls, preprocessRuns,
                   preprocessFail>>

\* the data URL built from the uploaded bytes, not from the processed ones
Preprocess_EncodeOriginal ==
    /\ pc = "preprocess"
    /\ \E fail \in PossibleFails(originalBuffer) :
        /\ preprocessFail' = fail
        /\ processedBuffer' = processImageForOCR(originalBuffer, fail)
        /\ dataUrl' = DataUrl(originalBuffer)
    /\ preprocessRuns' = preprocessRuns + 1
    /\ pc' = "call"
    /\ UNCHANGED <<rz, reqs, cli, apiKey, body, image, originalBuffer, completion, error,
                   response, upstream, upstreamCalls>>

\* lines 106-112: preprocess and build the data URL
Preprocess ==
    /\ pc = "preprocess"
    /\ \E fail \in PossibleFails(originalBuffer) :
        /\ preprocessFail' = fail
        /\ processedBuffer' = processImageForOCR(originalBuffer, fail)
        /\ dataUrl' = DataUrl(processedBuffer')
    /\ preprocessRuns' = preprocessRuns + 1
    /\ pc' = "call"
    /\ UNCHANGED <<rz, reqs, cli, apiKey, body, image, originalBuffer, completion, error,
                   response, upstream, upstreamCalls>>

\* lines 117-145: create the client and issue the upstream call
CallUpstream ==
    /\ pc = "call"
    /\ LET client == createOpenAIClient(apiKey)
       IN  IF ~client.ok
           THEN /\ upstream' = [t |-> "notCalled"]
                /\ error' = client.error
                /\ pc' = "catchApiCall"
                /\ UNCHANGED upstreamCalls
           ELSE /\ upstreamCalls' = upstreamCalls + 1
                /\ upstream' = [t |-> "pending", url |-> dataUrl.url]
                /\ pc' = "await"
                /\ UNCHANGED error
    /\ UNCHANGED <<rz, reqs, cli, apiKey, body, image, originalBuffer, processedBuffer,
                   dataUrl, completion, response, preprocessRuns,
                   preprocessFail>>

\* lines 121-147: the awaited call resolves with a completion or rejects
UpstreamSettles ==
    /\ pc = "await"
    /\ \/ \E c \in Completions :
            /\ upstream' = [t |-> "resolved", url |-> upstream.url, completion |-> c]
            /\ completion' = c
            /\ pc' = "validate"
            /\ UNCHANGED error
       \/ \E e \in UpstreamErrors :
            /\ upstream' = [t |-> "rejected", url |-> upstream.url, error |-> e]
            /\ error' = e
            /\ pc' = "catchApiCall"
            /\ UNCHANGED completion
    /\ UNCHANGED <<rz, reqs, cli, apiKey, body, image, originalBuffer, processedBuffer,
                   dataUrl, response, upstreamCalls, preprocessRuns,
                   preprocessFail>>

\* an inner catch that tries the call again before giving up
CatchApiCall_Retry ==
    /\ pc = "catchApiCall"
    /\ IF upstreamCalls = 1
       THEN /\ pc' = "call"
            /\ UNCHANGED error
       ELSE /\ error' = RethrowApiCallError(error)
            /\ pc' = "catch"
    /\ UNCHANGED <<rz, reqs, cli, apiKey, body, image, originalBuffer, processedBuffer,
                   dataUrl, completion, response, upstream, upstreamCalls,
                   preprocessRuns, preprocessFail>>

\* lines 147-166: wrap the failure and re-throw it
CatchApiCall ==
    /\ pc = "catchApiCall"
    /\ error' = RethrowApiCallError(error)
    /\ pc' = "catch"
    /\ UNCHANGED <<rz, reqs, cli, apiKey, body, image, originalBuffer, processedBuffer,
                   dataUrl, completion, response, upstream, upstreamCalls,
                   preprocessRuns, preprocessFail>>

\* lines 168-178: validate the completion and answer
Respond ==
    /\ pc = "validate"
    /\ response' = IF MalformedCompletion(completion)
                   THEN Json([error |-> MsgBadStructure], 500)
                   ELSE Json([text |-> ExtractedText(completion)], 200)
    /\ pc' = "done"
    /\ UNCHANGED <<rz, reqs, cli, apiKey, body, image, originalBuffer, processedBuffer,
                   dataUrl, completion, error, upstream, upstreamCalls,
                   preprocessRuns, preprocessFail>>

\* lines 179-201: the outer catch
CatchOuter ==
    /\ pc = "catch"
    /\ response' = ErrorResponse(error)
    /\ pc' = "done"
    /\ UNCHANGED <<rz, reqs, cli, apiKey, body, image, originalBuffer, processedBuffer,
                   dataUrl, completion, error, upstream, upstreamCalls,
                   preprocessRuns, preprocessFail>>

Next ==
    \/ Request
    \/ CheckKey
    \/ ReadFormData
    \/ ReadBuffer
    \/ Preprocess
    \/ CallUpstream
    \/ UpstreamSettles
    \/ CatchApiCall
    \/ Respond
    \/ CatchOuter
    \/ Finish

Spec == Init /\ [][Next]_vars

\* the handler's own steps always go on; the arrival of a request and the
\* settling of the upstream call are up to the outside
FairSpec ==
    /\ Spec
    /\ WF_vars(CheckKey)
    /\ WF_vars(ReadFormData)
    /\ WF_vars(ReadBuffer)
    /\ WF_vars(Preprocess)
    /\ WF_vars(CallUpstream)
    /\ WF_vars(CatchApiCall)
    /\ WF_vars(Respond)
    /\ WF_vars(CatchOuter)

(* ------------------------- properties: POST --------------------------- *)

KeyConfigured == Truthy(apiKey)

Done == pc = "done"

FileAttached == body # None /\ body.form /\ body.image.t = "file"

Resolved == upstream # None /\ upstream.t = "resolved"

Rejected == upstream # None /\ upstream.t = "rejected"

\* the upstream reply has a first choice
HasFirstChoice(c) ==
    c # JNull /\ c.choices # JNull /\ Len(c.choices.items) >= 1

\* the upstream reports an authentication failure / rate limiting
IsAuthFailure(e) == e.t = "APIError" /\ e.status = 401

IsRateLimit(e) == e.t = "APIError" /\ e.status = 429

\* C1: while no credential is configured, every request, whatever its
\* body, is answered with the missing-credential error and status 500,
\* and neither preprocessing nor an upstream call happens for it.
C1_MissingCredential ==
    (pc # "idle" /\ ~KeyConfigured) =>
        /\ upstreamCalls = 0
        /\ preprocessRuns = 0
        /\ pc \in {"start", "done"}
        /\ Done => response = Json([error |-> MsgKeyNotSet], 500)

C1_Witness ==
    /\ Done
    /\ ~KeyConfigured
    /\ FileAttached
    /\ response = Json([error |-> MsgKeyNotSet], 500)

\* C2: every request with no file attached (credential configured) is
\* answered with the no-image error and status 400, without an upstream
\* call.
C2_NoFileIs400 ==
    (Done /\ KeyConfigured /\ ~FileAttached) =>
        /\ response = Json([error |-> MsgNoImage], 400)
        /\ upstreamCalls = 0

\* C3: an upstream reply whose choices are empty or absent is answered
\* with the malformed-response error and status 500, never with a success.
C3_NoChoicesIsError ==
    (Done /\ Resolved /\ ~HasFirstChoice(upstream.completion)) =>
        /\ response = Json([error |-> MsgBadStructure], 500)
        /\ "text" \notin DOMAIN response.body

C3_Witness ==
    /\ Done
    /\ Resolved
    /\ upstream.completion # JNull
    /\ upstream.completion.choices # JNull
    /\ Len(upstream.completion.choices.items) = 0
    /\ response.status = 500

\* C4: a first choice whose content is the empty string is answered with
\* status 200 and the literal fallback text; a non-empty content is
\* returned unchanged with status 200.
C4_ContentOrFallback ==
    (/\ Done
     /\ Resolved
     /\ HasFirstChoice(upstream.completion)
     /\ upstream.completion.choices.items[1].message # JNull
     /\ upstream.completion.choices.items[1].message.content # JNull) =>
        LET s == upstream.completion.choices.items[1].message.content.s
        IN  response = Json([text |-> IF s = <<>> THEN FallbackText ELSE s], 200)

C4_Witness ==
    /\ Done
    /\ Resolved
    /\ HasFirstChoice(upstream.completion)
    /\ upstream.completion.choices.items[1].message # JNull
    /\ upstream.completion.choices.items[1].message.content = JStr(<<>>)
    /\ response = Json([text |-> FallbackText], 200)

\* C5: a first choice whose message, or whose message content, is missing
\* (null or absent) is answered with an error, never with a success.
C5_MissingContentIsError ==
    (/\ Done
     /\ Resolved
     /\ HasFirstChoice(upstream.completion)
     /\ \/ upstream.completion.choices.items[1].message = JNull
        \/ upstream.completion.choices.items[1].message.content = JNull) =>
        /\ response.status # 200
        /\ DOMAIN response.body = {"error"}

\* C6: every authentication failure reported by the upstream API is
\* answered with the error "Invalid API key" and status 401.
C6_AuthFailureIs401 ==
    (Done /\ Rejected /\ IsAuthFailure(upstream.error)) =>
        response = Json([error |-> <<TokInvalidKey>>], 401)

\* C7: every rate-limit failure reported by the upstream API is answered
\* with the error "Rate limit exceeded" and status 429.
C7_RateLimitIs429 ==
    (Done /\ Rejected /\ IsRateLimit(upstream.error)) =>
        response = Json([error |-> <<TokRateLimit>>], 429)

\* C8: an upstream or transport failure that is neither an authentication
\* failure nor rate limiting is answered with status 500 and a message
\* that includes the upstream message; it is never answered with 400, 401,
\* 429 or the missing-credential error.
C8_OtherFailureIs500 ==
    (/\ Done
     /\ Rejected
     /\ ~IsAuthFailure(upstream.error)
     /\ ~IsRateLimit(upstream.error)) =>
        /\ response.status = 500
        /\ response.body # [error |-> MsgKeyNotSet]
        /\ upstream.error.t # "nonError" =>
                Includes(response.body.error, upstream.error.message)

C10_PreprocessFallback ==
    (preprocessRuns = 1 /\ preprocessFail # "none") =>
        /\ processedBuffer = originalBuffer
        /\ dataUrl.url = <<"data:", "image/png", ";base64,">> \o Base64(originalBuffer.bytes)
        /\ pc \in {"call", "await", "catchApiCall", "validate", "catch", "done"}
        /\ pc \in {"call", "await"} => error = None
        /\ pc \in {"catchApiCall", "catch"} => Rejected
        /\ Done => /\ upstreamCalls = 1
                   /\ response.status # 200 =>
                        \/ Rejected
                        \/ Resolved /\ MalformedCompletion(upstream.completion)

C10_Witness ==
    /\ Done
    /\ preprocessFail = "filter"
    /\ processedBuffer = originalBuffer
    /\ response.status = 200

\* decoding of base64 text, the inverse of Base64
B64Index(c) == CHOOSE n \in 0..63 : B64Chars[n + 1] = c

RECURSIVE Base64Decode(_)
Base64Decode(chars) ==
    IF Len(chars) < 4 THEN <<>>
    ELSE LET a  == B64Index(chars[1])
             b  == B64Index(chars[2])
             b1 == a * 4 + b \div 16
         IN  IF chars[3] = "=" THEN <<b1>>
             ELSE LET c  == B64Index(chars[3])
                      b2 == (b % 16) * 16 + c \div 4
                  IN  IF chars[4] = "=" THEN <<b1, b2>>
                      ELSE <<b1, b2, (c % 4) * 64 + B64Index(chars[4])>>
                               \o Base64Decode(SubSeq(chars, 5, Len(chars)))

\* the call has been issued: upstream holds the URL that was sent
Called == upstream # None /\ upstream.t \in {"pending", "resolved", "rejected"}

\* the bytes carried by a data URL
SentBytes(url) == Base64Decode(SubSeq(url, 4, Len(url)))

\* C12: every response is either a body with only a text field and status
\* 200, or a body with only an error field and a status in
\* {400, 401, 429, 500}.
C12_AllOrNothing ==
    response # None =>
        \/ response.status = 200 /\ DOMAIN response.body = {"text"}
        \/ response.status \in {400, 401, 429, 500}
              /\ DOMAIN response.body = {"error"}

C12_Witness ==
    /\ Done
    /\ Rejected
    /\ response.status = 500
    /\ Includes(response.body.error, <<"Internal server error: ">>)

\* C13: the bytes in the data URL sent upstream are always PNG, as the
\* image/png type of the URL says.
C13_AlwaysPng ==
    Called =>
        /\ upstream.url[2] = "image/png"
        /\ FormatOf(SentBytes(upstream.url)) = "png"

\* C16: a file larger than 10 MiB is answered with status 400, and neither
\* preprocessing nor an upstream call happens for it.
C16_OversizedIs400 ==
    (KeyConfigured /\ FileAttached /\ body.image.size > MaxFileSize) =>
        /\ preprocessRuns = 0
        /\ upstreamCalls = 0
        /\ Done => response.status = 400

C18_Sequential ==
    /\ (image # None \/ error # None) => KeyConfigured
    /\ originalBuffer # None => image # None /\ image.t = "file"
    /\ preprocessRuns > 0 =>
            /\ originalBuffer # None
            /\ processedBuffer = processImageForOCR(originalBuffer, preprocessFail)
    /\ pc \in {"call", "await", "validate"} => preprocessRuns = 1
    /\ upstreamCalls > 0 =>
            /\ preprocessRuns = 1
            /\ Called
            /\ SubSeq(upstream.url, 1, 3) = <<"data:", "image/png", ";base64,">>
            /\ SentBytes(upstream.url) = processedBuffer.bytes
    /\ completion # None => Called
    /\ response # None => Done

C18_Witness ==
    /\ pc = "await"
    /\ preprocessFail = "none"
    /\ processedBuffer # originalBuffer
    /\ Len(processedBuffer.bytes) = 4
    /\ SentBytes(upstream.url) = processedBuffer.bytes

(* ------------------- the resize step (lines 36-48) -------------------- *)

\* the smallest longer side, in pixels, that is left as it is
MinDimension == 1000

\* image sides tried against every side of 0..MaxSide; 0 stands for a
\* side that the metadata does not give
SampleSides == {0, 1, 304, 500, 608, 976, 999, 1000, 1001, 2000}

Dimensions ==
    {<<a, b>> : a \in 0..MaxSide, b \in SampleSides}
        \cup {<<b, a>> : a \in 0..MaxSide, b \in SampleSides}

MaxOf(a, b) == IF a >= b THEN a ELSE b

\* the (side, maxDimension) pairs below 1000 for which the double product
\* side * (1000 / maxDimension) falls just under an exact .5
DoubleUnderHalf ==
    {<<19, 304>>, <<285, 304>>, <<38, 608>>, <<570, 608>>, <<61, 976>>,
     <<183, 976>>, <<427, 976>>, <<793, 976>>, <<915, 976>>}

\* Math.floor in place of Math.round
ScaledSide_Floor(side, maxDimension) ==
    (MinDimension * side) \div maxDimension

\* Math.round(side * scaleFactor) with scaleFactor = 1000 / maxDimension,
\* in IEEE double arithmetic
ScaledSide(side, maxDimension) ==
    IF <<side, maxDimension>> \in DoubleUnderHalf
    THEN (MinDimension * side) \div maxDimension
    ELSE (2 * MinDimension * side + maxDimension) \div (2 * maxDimension)

\* the resize test with <= in place of <
ResizeTarget_Inclusive(width, height) ==
    IF width # 0 /\ height # 0 /\ MaxOf(width, height) <= MinDimension
    THEN [resize |-> TRUE,
          width  |-> ScaledSide(width, MaxOf(width, height)),
          height |-> ScaledSide(height, MaxOf(width, height))]
    ELSE [resize |-> FALSE, width |-> width, height |-> height]

\* lines 37-48: the resize operation that is issued, if any
ResizeTarget(width, height) ==
    IF width # 0 /\ height # 0 /\ MaxOf(width, height) < MinDimension
    THEN [resize |-> TRUE,
          width  |-> ScaledSide(width, MaxOf(width, height)),
          height |-> ScaledSide(height, MaxOf(width, height))]
    ELSE [resize |-> FALSE, width |-> width, height |-> height]

\* an image whose metadata has been read (line 25)
InitResize ==
    /\ apiKey = "gsk-key"
    /\ HandlerIdle
    /\ reqs = None
    /\ cli = None
    /\ \E d \in Dimensions :
        rz = [pc |-> "metadata", width |-> d[1], height |-> d[2],
              target |-> None, out |-> None]

\* lines 36-48
ResizeStep ==
    /\ rz # None
    /\ rz.pc = "metadata"
    /\ rz' = [rz EXCEPT !.pc = "resized",
                        !.target = ResizeTarget(rz.width, rz.height)]
    /\ UNCHANGED <<apiKey, pc, body, image, originalBuffer, processedBuffer,
                   dataUrl, completion, error, response, upstream,
                   upstreamCalls, preprocessRuns, preprocessFail, reqs, cli>>

\* lines 64-67: the output has the resize target's size, or the input's
EncodeStep ==
    /\ rz # None
    /\ rz.pc = "resized"
    /\ rz' = [rz EXCEPT !.pc = "encoded",
                        !.out = [width |-> rz.target.width,
                                 height |-> rz.target.height]]
    /\ UNCHANGED <<apiKey, pc, body, image, originalBuffer, processedBuffer,
                   dataUrl, completion, error, response, upstream,
                   upstreamCalls, preprocessRuns, preprocessFail, reqs, cli>>

NextResize == ResizeStep \/ EncodeStep

SpecResize == InitResize /\ [][NextResize]_vars

Abs(n) == IF n < 0 THEN -n ELSE n

\* C14: for every image whose longer side is below 1000 pixels, the
\* resize target has a longer side of exactly 1000 pixels and each side is
\* the original side times 1000 / (longer side), rounded to a nearest
\* pixel.
C14_UpscaleTo1000 ==
    (/\ rz.pc \in {"resized", "encoded"}
     /\ rz.width >= 1
     /\ rz.height >= 1
     /\ MaxOf(rz.width, rz.height) < MinDimension) =>
        LET m == MaxOf(rz.width, rz.height)
        IN  /\ rz.target.resize
            /\ MaxOf(rz.target.width, rz.target.height) = 1000
            /\ rz.width = m => rz.target.width = 1000
            /\ rz.height = m => rz.target.height = 1000
            /\ 2 * Abs(rz.target.width * m - 1000 * rz.width) <= m
            /\ 2 * Abs(rz.target.height * m - 1000 * rz.height) <= m

C14_Witness ==
    /\ rz.pc = "encoded"
    /\ rz.width = 19
    /\ rz.height = 304
    /\ rz.out = [width |-> 62, height |-> 1000]

\* C15: an image whose longer side is 1000 pixels or more, exactly 1000
\* included, gets no resize operation and keeps its dimensions.
C15_NoResizeFrom1000 ==
    (/\ rz.pc \in {"resized", "encoded"}
     /\ MaxOf(rz.width, rz.height) >= MinDimension) =>
        /\ ~rz.target.resize
        /\ rz.pc = "encoded" =>
                rz.out = [width |-> rz.width, height |-> rz.height]

C15_Witness ==
    /\ rz.pc = "encoded"
    /\ rz.width = 1000
    /\ rz.height = 999
    /\ ~rz.target.resize
    /\ rz.out = [width |-> 1000, height |-> 999]

(* ---------------------- concurrent requests --------------------------- *)

srvVars == <<apiKey, pc, body, image, originalBuffer, processedBuffer,
             dataUrl, completion, error, response, upstream, upstreamCalls,
             preprocessRuns, preprocessFail>>

Reqs == 1..NumRequests

\* the local values of one invocation of POST
ReqIdle ==
    [pc |-> "idle", body |-> None, image |-> None, originalBuffer |-> None,
     processedBuffer |-> None, dataUrl |-> None, completion |-> None,
     error |-> None, response |-> None, upstream |-> None, fail |-> "none"]

\* the bodies of the concurrent requests: no image, or one of two images
ConcBodies ==
    {[form |-> TRUE, image |-> JNull],
     [form |-> TRUE,
      image |-> [t |-> "file", bytes |-> <<137, 77>>, format |-> "png",
                 size |-> MaxFileSize]],
     [form |-> TRUE,
      image |-> [t |-> "file", bytes |-> <<255, 77, 97>>, format |-> "jpeg",
                 size |-> MaxFileSize]]}

ConcFails == {"none", "filter"}

\* the text that the upstream model reads in the image of a data URL
OcrText(url) == SubSeq(url, 4, Len(url))

OcrCompletion(url) ==
    [choices |-> JArr(<<[message |-> [content |-> JStr(OcrText(url))]]>>)]

ConcErrors == {ApiError(429, <<TokRateLimit>>), PlainError(<<"Unauthorized">>)}

InitConc ==
    /\ apiKey \in ApiKeys
    /\ HandlerIdle
    /\ rz = None
    /\ cli = None
    /\ reqs = [i \in Reqs |-> ReqIdle]

\* line 79: request i arrives
CRequest(i) ==
    /\ reqs[i].pc = "idle"
    /\ \E b \in ConcBodies :
        reqs' = [reqs EXCEPT ![i] = [ReqIdle EXCEPT !.pc = "start", !.body = b]]
    /\ UNCHANGED <<srvVars, rz, cli>>

\* lines 80-89
CCheckKey(i) ==
    /\ reqs[i].pc = "start"
    /\ reqs' = [reqs EXCEPT ![i] =
                  IF ~Truthy(apiKey)
                  THEN [@ EXCEPT !.response = Json([error |-> MsgKeyNotSet], 500),
                                 !.pc = "done"]
                  ELSE [@ EXCEPT !.pc = "formData"]]
    /\ UNCHANGED <<srvVars, rz, cli>>

\* lines 91-97
CReadFormData(i) ==
    /\ reqs[i].pc = "formData"
    /\ reqs' = [reqs EXCEPT ![i] =
                  IF reqs[i].body.image = JNull \/ reqs[i].body.image = JStr("")
                  THEN [@ EXCEPT !.image = reqs[i].body.image,
                                 !.response = Json([error |-> MsgNoImage], 400),
                                 !.pc = "done"]
                  ELSE [@ EXCEPT !.image = reqs[i].body.image,
                                 !.pc = "arrayBuffer"]]
    /\ UNCHANGED <<srvVars, rz, cli>>

\* lines 102-103
CReadBuffer(i) ==
    /\ reqs[i].pc = "arrayBuffer"
    /\ reqs' = [reqs EXCEPT ![i] =
                  [@ EXCEPT !.originalBuffer = [bytes |-> reqs[i].image.bytes,
                                                format |-> reqs[i].image.format],
                            !.pc = "preprocess"]]
    /\ UNCHANGED <<srvVars, rz, cli>>

\* lines 106-112
CPreprocess(i) ==
    /\ reqs[i].pc = "preprocess"
    /\ \E fail \in ConcFails :
        LET processed == processImageForOCR(reqs[i].originalBuffer, fail)
        IN  reqs' = [reqs EXCEPT ![i] =
                       [@ EXCEPT !.fail = fail,
                                 !.processedBuffer = processed,
                                 !.dataUrl = DataUrl(processed),
                                 !.pc = "call"]]
    /\ UNCHANGED <<srvVars, rz, cli>>

\* lines 117-145
CCallUpstream(i) ==
    /\ reqs[i].pc = "call"
    /\ LET client == createOpenAIClient(apiKey)
       IN  reqs' = [reqs EXCEPT ![i] =
                      IF ~client.ok
                      THEN [@ EXCEPT !.upstream = [t |-> "notCalled"],
                                     !.error = client.error,
                                     !.pc = "catchApiCall"]
                      ELSE [@ EXCEPT !.upstream = [t |-> "pending",
                                                   url |-> reqs[i].dataUrl.url],
                                     !.pc = "await"]]
    /\ UNCHANGED <<srvVars, rz, cli>>

\* a completion kept in a variable of the module, shared by all requests
CUpstreamSettles_Shared(i) ==
    /\ reqs[i].pc = "await"
    /\ \/ LET c == OcrCompletion(reqs[i].upstream.url)
          IN  reqs' = [j \in Reqs |->
                         IF j = i
                         THEN [reqs[j] EXCEPT
                                 !.upstream = [t |-> "resolved", url |-> @.url,
                                               completion |-> c],
                                 !.completion = c,
                                 !.pc = "validate"]
                         ELSE IF reqs[j].pc = "validate"
                              THEN [reqs[j] EXCEPT !.completion = c]
                              ELSE reqs[j]]
       \/ \E e \in ConcErrors :
            reqs' = [reqs EXCEPT ![i] =
                       [@ EXCEPT !.upstream = [t |-> "rejected", url |-> @.url,
                                               error |-> e],
                                 !.error = e,
                                 !.pc = "catchApiCall"]]
    /\ UNCHANGED <<srvVars, rz, cli>>

\* lines 121-147: the call of request i settles
CUpstreamSettles(i) ==
    /\ reqs[i].pc = "await"
    /\ \/ LET c == OcrCompletion(reqs[i].upstream.url)
          IN  reqs' = [reqs EXCEPT ![i] =
                         [@ EXCEPT !.upstream = [t |-> "resolved", url |-> @.url,
                                                 completion |-> c],
                                   !.completion = c,
                                   !.pc = "validate"]]
       \/ \E e \in ConcErrors :
            reqs' = [reqs EXCEPT ![i] =
                       [@ EXCEPT !.upstream = [t |-> "rejected", url |-> @.url,
                                               error |-> e],
                                 !.error = e,
                                 !.pc = "catchApiCall"]]
    /\ UNCHANGED <<srvVars, rz, cli>>

\* lines 147-166
CCatchApiCall(i) ==
    /\ reqs[i].pc = "catchApiCall"
    /\ reqs' = [reqs EXCEPT ![i] =
                  [@ EXCEPT !.error = RethrowApiCallError(@), !.pc = "catch"]]
    /\ UNCHANGED <<srvVars, rz, cli>>

\* lines 168-178
CRespond(i) ==
    /\ reqs[i].pc = "validate"
    /\ reqs' = [reqs EXCEPT ![i] =
                  [@ EXCEPT !.response =
                                IF MalformedCompletion(reqs[i].completion)
                                THEN Json([error |-> MsgBadStructure], 500)
                                ELSE Json([text |-> ExtractedText(reqs[i].completion)], 200),
                            !.pc = "done"]]
    /\ UNCHANGED <<srvVars, rz, cli>>

\* lines 179-201
CCatchOuter(i) ==
    /\ reqs[i].pc = "catch"
    /\ reqs' = [reqs EXCEPT ![i] =
                  [@ EXCEPT !.response = ErrorResponse(reqs[i].error),
                            !.pc = "done"]]
    /\ UNCHANGED <<srvVars, rz, cli>>

NextConc ==
    \E i \in Reqs :
        \/ CRequest(i)
        \/ CCheckKey(i)
        \/ CReadFormData(i)
        \/ CReadBuffer(i)
        \/ CPreprocess(i)
        \/ CCallUpstream(i)
        \/ CUpstreamSettles(i)
        \/ CCatchApiCall(i)
        \/ CRespond(i)
        \/ CCatchOuter(i)

SpecConc == InitConc /\ [][NextConc]_vars

\* the URL that request r has to send: its own image, preprocessed
OwnUrl(r) ==
    DataUrl(processImageForOCR([bytes |-> r.body.image.bytes,
                                format |-> r.body.image.format], r.fail)).url

\* the response that request r has to get from its own body, the
\* configuration and its own upstream reply
OwnResponse(r) ==
    IF ~Truthy(apiKey) THEN Json([error |-> MsgKeyNotSet], 500)
    ELSE IF r.body.image = JNull THEN Json([error |-> MsgNoImage], 400)
    ELSE IF r.upstream.t = "resolved"
         THEN Json([text |-> OcrText(OwnUrl(r))], 200)
    ELSE ErrorResponse(RethrowApiCallError(r.upstream.error))

\* C11: for every interleaving of the steps of the concurrent requests,
\* each request sends its own image upstream and its response is given by
\* its own body, the configuration and its own upstream reply.
C11_NoInterference ==
    \A i \in Reqs :
        /\ (reqs[i].upstream # None /\ reqs[i].upstream.t # "notCalled") =>
                reqs[i].upstream.url = OwnUrl(reqs[i])
        /\ reqs[i].pc = "done" => reqs[i].response = OwnResponse(reqs[i])

C11_Witness ==
    /\ reqs[1].pc = "done"
    /\ reqs[2].pc = "done"
    /\ reqs[1].response.status = 200
    /\ reqs[2].response.status = 200
    /\ reqs[1].body # reqs[2].body
    /\ reqs[1].response.body.text # reqs[2].response.body.text

(* ------------------- the client (src/app/page.tsx) -------------------- *)

\* String.prototype.startsWith on token sequences
StartsWith(s, t) == Len(t) <= Len(s) /\ SubSeq(s, 1, Len(t)) = t

\* the files the user can pick: File.type, File.size, and whether the
\* browser can decode the file as an image (img.onload fires)
CliFiles ==
    {[id |-> "A", type |-> <<"image/", "png">>, size |-> 1024, decodable |-> TRUE],
     [id |-> "B", type |-> <<"image/", "jpeg">>, size |-> MaxFileSize, decodable |-> TRUE],
     [id |-> "C", type |-> <<"image/", "png">>, size |-> MaxFileSize + 1, decodable |-> TRUE],
     [id |-> "D", type |-> <<"text/", "plain">>, size |-> 1024, decodable |-> FALSE],
     [id |-> "E", type |-> <<"image/", "heic">>, size |-> 1024, decodable |-> FALSE]}

MsgTooBig == <<"File must be under 10MB">>

MsgNotImage == <<"Please select an image file">>

\* URL.createObjectURL(file) and the data URL of the resized preview
BlobUrl(file) == JStr(<<"blob:", file.id>>)

ResizedUrl(file) == JStr(<<"data:image/jpeg", file.id>>)

\* the text the server extracts from a file
TextOf(file) == <<"text of ", file.id>>

\* what fetch("/api/ocr") can bring: a response of the route, or a failure
FetchOutcomes(file) ==
    {[t |-> "response", ok |-> TRUE, json |-> [text |-> TextOf(file)]],
     [t |-> "response", ok |-> FALSE, json |-> [error |-> MsgKeyNotSet]],
     [t |-> "response", ok |-> FALSE, json |-> [error |-> <<TokRateLimit>>]],
     [t |-> "failure", message |-> <<"Failed to fetch">>]}

\* lines 12-21: the initial state of the component
InitClient ==
    /\ apiKey = "gsk-key"
    /\ HandlerIdle
    /\ rz = None
    /\ reqs = None
    /\ cli = [selectedFile |-> JNull, previewUrl |-> JNull,
              resizedPreviewUrl |-> JNull, extractedText |-> <<>>,
              isLoading |-> FALSE, error |-> JNull, processingTime |-> JNull,
              showSetupGuide |-> FALSE, calls |-> <<>>]

\* lines 101-112 and 126-128: processFile up to its await, or its rejection
ProcessFile(f) ==
    /\ Len(cli.calls) < MaxUploads
    /\ IF StartsWith(f.type, <<"image/">>)
       THEN IF f.size > MaxFileSize
            THEN cli' = [cli EXCEPT
                    !.error = JStr(MsgTooBig),
                    !.calls = Append(@, [file |-> f, pc |-> "rejected",
                                         ocrCalls |-> 0, outcome |-> None])]
            ELSE cli' = [cli EXCEPT
                    !.selectedFile = f,
                    !.error = JNull,
                    !.extractedText = <<>>,
                    !.processingTime = JNull,
                    !.previewUrl = BlobUrl(f),
                    !.calls = Append(@, [file |-> f, pc |-> "resize",
                                         ocrCalls |-> 0, outcome |-> None])]
       ELSE cli' = [cli EXCEPT
                    !.error = JStr(MsgNotImage),
                    !.calls = Append(@, [file |-> f, pc |-> "rejected",
                                         ocrCalls |-> 0, outcome |-> None])]
    /\ UNCHANGED <<srvVars, rz, reqs>>

\* lines 24-54, 114-125 and 150-166: the preview promise resolves (img.onload,
\* the only place that settles it), then handleOCR runs up to its fetch
ResizeSettles(i) ==
    /\ i <= Len(cli.calls)
    /\ cli.calls[i].pc = "resize"
    /\ cli.calls[i].file.decodable
    /\ cli' = [cli EXCEPT
                 !.resizedPreviewUrl = ResizedUrl(cli.calls[i].file),
                 !.isLoading = TRUE,
                 !.error = JNull,
                 !.extractedText = <<>>,
                 !.processingTime = JNull,
                 !.calls[i].pc = "fetch",
                 !.calls[i].ocrCalls = @ + 1]
    /\ UNCHANGED <<srvVars, rz, reqs>>

\* lines 164-170 and 214-222: fetch settles
FetchSettles(i) ==
    /\ i <= Len(cli.calls)
    /\ cli.calls[i].pc = "fetch"
    /\ \E o \in FetchOutcomes(cli.calls[i].file) :
        IF o.t = "failure"
        THEN cli' = [cli EXCEPT
                       !.error = JStr(o.message),
                       !.processingTime = JNull,
                       !.isLoading = FALSE,
                       !.calls[i].pc = "done",
                       !.calls[i].outcome = o]
        ELSE cli' = [cli EXCEPT
                       !.processingTime = [t |-> "number"],
                       !.calls[i].pc = "json",
                       !.calls[i].outcome = o]
    /\ UNCHANGED <<srvVars, rz, reqs>>

\* lines 172-222: the body has been read; show the text or the error
JsonSettles(i) ==
    /\ i <= Len(cli.calls)
    /\ cli.calls[i].pc = "json"
    /\ LET o == cli.calls[i].outcome
       IN  IF o.ok
           THEN cli' = [cli EXCEPT
                          !.extractedText = o.json.text,
                          !.showSetupGuide = FALSE,
                          !.isLoading = FALSE,
                          !.calls[i].pc = "done"]
           ELSE cli' = [cli EXCEPT
                          !.showSetupGuide =
                               \/ Includes(o.json.error, <<"API key">>)
                               \/ Includes(o.json.error, <<" environment variable is not set">>)
                               \/ Includes(o.json.error, <<TokInvalidKey>>),
                          !.error = JStr(o.json.error),
                          !.processingTime = JNull,
                          !.isLoading = FALSE,
                          !.calls[i].pc = "done"]
    /\ UNCHANGED <<srvVars, rz, reqs>>

\* lines 236-247; the button and the Escape key exist while a file is selected
ClearFile ==
    /\ cli.selectedFile # JNull
    /\ cli' = [cli EXCEPT
                 !.selectedFile = JNull,
                 !.previewUrl = JNull,
                 !.resizedPreviewUrl = JNull,
                 !.extractedText = <<>>,
                 !.error = JNull,
                 !.processingTime = JNull]
    /\ UNCHANGED <<srvVars, rz, reqs>>

NextClient ==
    \/ \E f \in CliFiles : ProcessFile(f)
    \/ \E i \in 1..MaxUploads : ResizeSettles(i)
    \/ \E i \in 1..MaxUploads : FetchSettles(i)
    \/ \E i \in 1..MaxUploads : JsonSettles(i)
    \/ ClearFile

SpecClient == InitClient /\ [][NextClient]_vars

\* the browser settles what it can: a decodable image loads, a fetch ends,
\* a body is read; what the user does is not forced
FairClient ==
    /\ SpecClient
    /\ \A i \in 1..MaxUploads :
            /\ WF_vars(ResizeSettles(i))
            /\ WF_vars(FetchSettles(i))
            /\ WF_vars(JsonSettles(i))

\* the file is one that processFile accepts
Accepted(f) == StartsWith(f.type, <<"image/">>) /\ f.size <= MaxFileSize

\* C19: processFile rejects a file over 10 MiB or of a type that does not
\* start with "image/": it sets an error, sends no request and leaves the
\* selected file, the previews and the extracted text as they are; every
\* accepted file leads to exactly one call of handleOCR with that file.
C19_ProcessFile ==
    /\ [][\A f \in CliFiles :
            (ProcessFile(f) /\ ~Accepted(f)) =>
                /\ cli'.error \in {JStr(MsgTooBig), JStr(MsgNotImage)}
                /\ cli'.selectedFile = cli.selectedFile
                /\ cli'.previewUrl = cli.previewUrl
                /\ cli'.resizedPreviewUrl = cli.resizedPreviewUrl
                /\ cli'.extractedText = cli.extractedText]_vars
    /\ [](\A i \in 1..MaxUploads :
            i <= Len(cli.calls) =>
                /\ cli.calls[i].ocrCalls <= 1
                /\ ~Accepted(cli.calls[i].file) => cli.calls[i].ocrCalls = 0)
    /\ \A i \in 1..MaxUploads :
            (i <= Len(cli.calls) /\ Accepted(cli.calls[i].file))
                ~> (i <= Len(cli.calls) /\ cli.calls[i].ocrCalls = 1)

\* C20: whenever the extracted text shown is not empty, it is the
\* response to the file that is selected now.
C20_TextOfSelectedFile ==
    cli.extractedText # <<>> =>
        /\ cli.selectedFile # JNull
        /\ cli.extractedText = TextOf(cli.selectedFile)

\* handleOCR has issued its fetch for call i and has not reached its finally
InFlight(i) == i <= Len(cli.calls) /\ cli.calls[i].pc \in {"fetch", "json"}

\* C21: isLoading is true exactly while at least one /api/ocr request
\* started by handleOCR is in flight; with two overlapping requests the
\* completion of the first does not clear it while the second is pending.
C21_LoadingWhileInFlight ==
    cli.isLoading <=> \E i \in 1..MaxUploads : InFlight(i)

TypeOK ==
    /\ apiKey \in ApiKeys
    /\ pc \in {"idle", "start", "formData", "arrayBuffer", "preprocess",
               "call", "await", "catchApiCall", "validate", "catch", "done"}
    /\ upstreamCalls \in 0..1
    /\ preprocessRuns \in 0..1

=============================================================================
